---- MODULE Spec2Model ----
(***************************************************************************)
(* HawkEye: visual quality inspection of pin trays and shafts.             *)
(*                                                                         *)
(* The model has two halves.  The inspection pipeline (compartment grid,   *)
(* pin classifier, shaft analyzer, aggregator) lives in the backend, which *)
(* is not part of the front-end sources; it is modelled from the           *)
(* specification.  The results page (loadData, handleAprovarLote and the   *)
(* values derived while rendering) is modelled from                        *)
(* src/frontend/app/results/page.tsx, the upload page from                 *)
(* src/frontend/app/page.tsx and its batched version, the dashboard from   *)
(* the dashboard service and BatchMetrics, and the admin batches page      *)
(* from its LotesPage component.                                           *)
(*                                                                         *)
(* Fields that are only passed through (file name, sha256, URIs, bounding  *)
(* boxes, shaft width, areas_count) carry no decision and are left out of  *)
(* the records.                                                            *)
(***************************************************************************)
EXTENDS Integers, Sequences, FiniteSets, TLC

VARIABLES
    stage,                 \* position of the per-image pipeline
    cur,                   \* compartment the pin detector is working on
    boxes,                 \* compartments found so far, each with its pins_count
    tally,                 \* running pin classification tally of the image
    shafts,                \* ShaftData of the shafts analysed so far
    result,                \* the aggregated per-image result, once stage 4 ran
    globalProcessedImages, \* upload page: module variable globalProcessedImages
    savedData,             \* sessionStorage["processedImages"]
    usingGlobalMemory,     \* sessionStorage["usingGlobalMemory"] = "true"
    route,                 \* page the browser is on
    images,                \* results page: useState images
    selectedImageIndex,    \* results page: useState selectedImageIndex (0-based)
    isLoading,             \* results page: useState isLoading
    loteName,              \* results page: useState loteName
    isSaving,              \* results page: useState isSaving
    saveSuccess,           \* results page: useState saveSuccess
    saveError,             \* results page: useState saveError
    request,               \* body of the last POST /api/batches/create
    awaiting,              \* a create request is in flight
    timerPending,          \* the 2 s redirect timer of a successful approval
    rejecting,             \* a POST /api/batches/reject is in flight
    files,                 \* upload page: useState files (the ids of the files)
    isModalOpen,           \* upload page: useState isModalOpen
    modalImageIndex,       \* upload page: useState selectedImageIndex (null or 0-based)
    shown,                 \* upload page: the state the last render was made from
    renderFailed,          \* upload page: a render threw and the page is gone
    uploadIsLoading,       \* upload page: useState isLoading
    error,                 \* upload page: useState error (null or a message)
    awaitingAt,            \* upload page: the await handleContinue is suspended at
    batchRun,              \* upload page: files and loop variable i of the batched handleContinue
    log,                   \* requests sent, their outcomes, storing and navigation, in order
    navTimer,              \* upload page: the runs whose 500 ms timer before router.push is pending
    dbBatches,             \* dashboard: rows of the table batches
    recentBatches,         \* dashboard: getDashboardMetrics().recentBatches
    tableRows,             \* dashboard: the rows BatchMetrics rendered
    batchesTable,          \* database: ids of the rows of the table batches
    batches,               \* batches page: useState batches (the ids, as listed)
    loading,               \* batches page: useState loading
    deleting,              \* batches page: useState deleting (null or a batch id)
    deleteCalls            \* batches page: the handleDelete calls suspended at their await

pipeVars == <<stage, cur, boxes, tally, shafts, result>>
storeVars == <<globalProcessedImages, savedData, usingGlobalMemory>>
pageVars == <<images, selectedImageIndex, isLoading, loteName, isSaving,
              saveSuccess, saveError, request, awaiting, timerPending>>
uploadVars == <<files, isModalOpen, modalImageIndex, shown, renderFailed,
                uploadIsLoading, error, awaitingAt, batchRun, log, navTimer>>
dashVars == <<dbBatches, recentBatches, tableRows>>
rejectVars == <<rejecting>>
lotesVars == <<batchesTable, batches, loading, deleting, deleteCalls>>
adminVars == <<lotesVars, rejectVars>>
otherVars == <<uploadVars, dashVars, adminVars>>
frontVars == <<storeVars, route, pageVars, otherVars>>
vars == <<pipeVars, frontVars>>

----------------------------------------------------------------------------
(* Bounds of the model *)

MaxBoxes == 2          \* compartments per image in the pipeline runs
MaxPins == 2           \* pins per image in the pipeline runs
MaxShafts == 1         \* shafts per image
MaxGridBoxes == 9      \* compartments per image in the grid-mapping runs
MaxBatches == 2        \* finalized batches the dashboard reads
MaxCaptures == 6       \* captures of a finalized batch
MaxSelected == 2       \* files chosen or dropped at once
MaxRuns == 2           \* times "Continuar" is pressed
MaxQueued == 11        \* files added to the list of the batched page
MaxAdded == 6          \* files added to the list over a session
MaxLotes == 3          \* batches listed on the batches page
MaxDeleteCalls == 2    \* deletions in flight at once

----------------------------------------------------------------------------
(* JavaScript values *)

\* An optional value: absent (undefined) or present.
Undefined == <<>>
Some(v) == <<v>>

\* `x || 0` on a count: undefined and 0 give 0, any other number itself.
OrZero(opt) == IF opt = Undefined THEN 0 ELSE opt[1]

\* Array.prototype.map
Map(F(_), s) == [i \in 1..Len(s) |-> F(s[i])]

RECURSIVE SumSeq(_)
SumSeq(s) == IF s = <<>> THEN 0 ELSE Head(s) + SumSeq(Tail(s))

\* Array.prototype.filter(...).length
CountIf(P(_), s) == Cardinality({i \in 1..Len(s) : P(s[i])})

----------------------------------------------------------------------------
(* Pipeline configuration: thresholds are named configuration values.  The *)
(* numbers stand for calibrated values; measurements use the same units.   *)

ColorBandLo == 1              \* expected reference colour band, lower end
ColorBandHi == 2              \* expected reference colour band, upper end
DamagedThreshold == 2         \* pixel area below which a pin is damaged
MinLength == 1                \* primary: minimum shaft length
MaxInclination == 1           \* primary: maximum |inclination|
MinStraightness == 1          \* primary: minimum straightness
MinArea == 1                  \* primary: plausible area range, lower end
MaxArea == 2                  \* primary: plausible area range, upper end
SecondaryStraightness == 2    \* secondary: advisory straightness floor

\* Measured values around the thresholds.
Hues == (ColorBandLo - 1)..(ColorBandHi + 1)
PinAreas == (DamagedThreshold - 1)..(DamagedThreshold + 1)
Pins == [hue : Hues, area : PinAreas]

Lengths == {MinLength - 1, MinLength}
Inclinations == {-(MaxInclination + 1), 0, MaxInclination + 1}
Straightnesses == {MinStraightness - 1, MinStraightness, SecondaryStraightness}
ShaftAreas == {MinArea - 1, MinArea, MaxArea + 1}
Geometries == [length : Lengths, inclination : Inclinations,
               straightness : Straightnesses, area : ShaftAreas]

Abs(x) == IF x < 0 THEN -x ELSE x

----------------------------------------------------------------------------
(* 4.1 Compartment Grid Detector / 3 Compartment *)

OccupancyStatus(pins_count) ==
    IF pins_count = 0 THEN "empty"
    ELSE IF pins_count = 1 THEN "single"
    ELSE "multiple"

(* 4.2 Pin Detector & Classifier *)

WrongColorCandidate(pin) == ~(ColorBandLo <= pin.hue /\ pin.hue <= ColorBandHi)
DamagedCandidate(pin) == pin.area < DamagedThreshold

ClassifyPin(pin) ==
    IF WrongColorCandidate(pin) /\ DamagedCandidate(pin) THEN "double_defect"
    ELSE IF WrongColorCandidate(pin) THEN "wrong_color"
    ELSE IF DamagedCandidate(pin) THEN "damaged"
    ELSE "ok"

EmptyTally ==
    [total_pins |-> 0, pins_ok |-> 0, pins_wrong_color |-> 0,
     pins_damaged |-> 0, pins_double_defect |-> 0]

\* Variant: a double defect is also tallied under both single categories.
TallyPinDoubleCounted(t, category) ==
    [total_pins |-> t.total_pins + 1,
     pins_ok |-> t.pins_ok + (IF category = "ok" THEN 1 ELSE 0),
     pins_wrong_color |-> t.pins_wrong_color
        + (IF category \in {"wrong_color", "double_defect"} THEN 1 ELSE 0),
     pins_damaged |-> t.pins_damaged
        + (IF category \in {"damaged", "double_defect"} THEN 1 ELSE 0),
     pins_double_defect |-> t.pins_double_defect + (IF category = "double_defect" THEN 1 ELSE 0)]

TallyPin(t, category) ==
    [total_pins |-> t.total_pins + 1,
     pins_ok |-> t.pins_ok + (IF category = "ok" THEN 1 ELSE 0),
     pins_wrong_color |-> t.pins_wrong_color + (IF category = "wrong_color" THEN 1 ELSE 0),
     pins_damaged |-> t.pins_damaged + (IF category = "damaged" THEN 1 ELSE 0),
     pins_double_defect |-> t.pins_double_defect + (IF category = "double_defect" THEN 1 ELSE 0)]

(* 4.3 Shaft Geometry Analyzer, step 6 *)

PrimaryOk(g) ==
    /\ g.length >= MinLength
    /\ Abs(g.inclination) <= MaxInclination
    /\ g.straightness >= MinStraightness
    /\ MinArea <= g.area /\ g.area <= MaxArea

SecondaryOk(g) == g.straightness >= SecondaryStraightness

\* Variant: the secondary flag only records that the primary criteria passed.
ClassifyShaftBothFlags(g) ==
    [area |-> g.area, length |-> g.length, straightness |-> g.straightness,
     inclination_rad |-> g.inclination,
     approved |-> PrimaryOk(g) /\ SecondaryOk(g),
     rejected_secondary |-> PrimaryOk(g)]

\* Variant: the secondary criterion is flagged without looking at the primary ones.
ClassifyShaftSecondaryAlone(g) ==
    [area |-> g.area, length |-> g.length, straightness |-> g.straightness,
     inclination_rad |-> g.inclination,
     approved |-> PrimaryOk(g) /\ SecondaryOk(g),
     rejected_secondary |-> ~SecondaryOk(g)]

ClassifyShaft(g) ==
    [area |-> g.area, length |-> g.length, straightness |-> g.straightness,
     inclination_rad |-> g.inclination,
     approved |-> PrimaryOk(g) /\ SecondaryOk(g),
     rejected_secondary |-> PrimaryOk(g) /\ ~SecondaryOk(g)]

----------------------------------------------------------------------------
(* 4.4 Defect Aggregator: the per-image result handed to the front end,    *)
(* shaped as the ProcessedImage the results page declares.                 *)

Box(pins_count) == [pins_count |-> pins_count, status |-> OccupancyStatus(pins_count)]

IsEmpty(b) == b.status = "empty"
IsSingle(b) == b.status = "single"
IsMultiple(b) == b.status = "multiple"

BoxesInfo(counts) ==
    LET bs == Map(Box, counts) IN
    [total_boxes |-> Len(bs),
     empty_boxes |-> CountIf(IsEmpty, bs),
     single_pin_boxes |-> CountIf(IsSingle, bs),
     multiple_pins_boxes |-> CountIf(IsMultiple, bs),
     boxes |-> bs]

PinClassification(t) ==
    [total_pins |-> t.total_pins,
     valid_pins |-> t.pins_ok,
     invalid_pins |-> t.total_pins - t.pins_ok,
     critical_pins |-> t.pins_double_defect,
     details |-> [pins_ok |-> t.pins_ok,
                  pins_wrong_color |-> t.pins_wrong_color,
                  pins_damaged_yellow |-> t.pins_damaged,
                  pins_double_defect |-> t.pins_double_defect]]

IsApproved(s) == s.approved
IsRejected(s) == ~s.approved

ShaftClassification(ss) ==
    [total_shafts |-> Len(ss),
     approved_shafts |-> CountIf(IsApproved, ss),
     rejected_shafts |-> CountIf(IsRejected, ss),
     shafts |-> ss]

Aggregated(counts, t, ss) ==
    [boxes_info |-> BoxesInfo(counts),
     pin_classification |-> Some(PinClassification(t)),
     shaft_classification |-> Some(ShaftClassification(ss))]

----------------------------------------------------------------------------
(* The per-image pipeline as a state machine: stages 1 to 4 in order.      *)

PipelineInit ==
    /\ stage = "grid"
    /\ cur = 0
    /\ boxes = <<>>
    /\ tally = EmptyTally
    /\ shafts = <<>>
    /\ result = Undefined

\* Stage 1 finds one more compartment of the tray.
DetectCompartment ==
    /\ stage = "grid"
    /\ Len(boxes) < MaxBoxes
    /\ boxes' = Append(boxes, 0)
    /\ UNCHANGED <<stage, cur, tally, shafts, result, frontVars>>

\* The per-image failure result of an unprocessable image, as it travels in
\* the results array of the response: an entry with no compartment and
\* without the classification objects a normal result carries.
Unprocessable ==
    [boxes_info |-> BoxesInfo(<<>>),
     pin_classification |-> Undefined,
     shaft_classification |-> Undefined]

\* Stage 1 is complete.  No compartment at all: the image is unprocessable,
\* which is reported for this image and ends its pipeline.
FinishGrid ==
    /\ stage = "grid"
    /\ IF boxes = <<>>
         THEN stage' = "errored" /\ cur' = cur /\ result' = Some(Unprocessable)
         ELSE stage' = "pins" /\ cur' = 1 /\ result' = result
    /\ UNCHANGED <<boxes, tally, shafts, frontVars>>

\* Stage 2 finds one more pin in the current compartment and classifies it.
DetectPin(pin) ==
    /\ stage = "pins"
    /\ cur <= Len(boxes)
    /\ tally.total_pins < MaxPins
    /\ boxes' = [boxes EXCEPT ![cur] = @ + 1]
    /\ tally' = TallyPin(tally, ClassifyPin(pin))
    /\ UNCHANGED <<stage, cur, shafts, result, frontVars>>

\* Variant: an empty compartment already disqualifies the image, so the
\* pipeline goes straight to the aggregator.
NextCompartmentStopsAtDefect ==
    /\ stage = "pins"
    /\ IF cur <= Len(boxes) /\ boxes[cur] = 0
         THEN cur' = 0 /\ stage' = "aggregate"
         ELSE IF cur < Len(boxes)
           THEN cur' = cur + 1 /\ stage' = stage
           ELSE cur' = 0 /\ stage' = "shafts"
    /\ UNCHANGED <<boxes, tally, shafts, result, frontVars>>

\* Stage 2 moves to the next compartment; after the last one it is complete.
NextCompartment ==
    /\ stage = "pins"
    /\ IF cur < Len(boxes)
         THEN cur' = cur + 1 /\ stage' = stage
         ELSE cur' = 0 /\ stage' = "shafts"
    /\ UNCHANGED <<boxes, tally, shafts, result, frontVars>>

\* Stage 3 measures one more shaft and decides on it.
AnalyzeShaft(g) ==
    /\ stage = "shafts"
    /\ Len(shafts) < MaxShafts
    /\ shafts' = Append(shafts, ClassifyShaft(g))
    /\ UNCHANGED <<stage, cur, boxes, tally, result, frontVars>>

FinishShafts ==
    /\ stage = "shafts"
    /\ stage' = "aggregate"
    /\ UNCHANGED <<cur, boxes, tally, shafts, result, frontVars>>

\* Stage 4 combines the three detectors' outputs.
Aggregate ==
    /\ stage = "aggregate"
    /\ result' = Some(Aggregated(boxes, tally, shafts))
    /\ stage' = "done"
    /\ UNCHANGED <<cur, boxes, tally, shafts, frontVars>>

----------------------------------------------------------------------------
(* Upload page: handleContinue, from the processed results onwards.        *)

\* A result as the front end receives it: the classification objects are
\* read with `?.` and may be missing from the JSON.
OmitKeys == {"pin_classification", "shaft_classification"}

Omit(img, omit) ==
    [boxes_info |-> img.boxes_info,
     pin_classification |->
        IF "pin_classification" \in omit THEN Undefined ELSE img.pin_classification,
     shaft_classification |->
        IF "shaft_classification" \in omit THEN Undefined ELSE img.shaft_classification]

\* Result of another image of the same batch: a tray with one filled and one
\* empty compartment, one good pin and no shaft.
OtherImage == Aggregated(<<1, 0>>, TallyPin(EmptyTally, "ok"), <<>>)
OtherResults == {<<>>, <<OtherImage>>}

\* handleContinue after processImages returned: keep the results, write them
\* to sessionStorage (which may throw on quota), then go to /results.  The
\* stored JSON text is represented by the value it parses back to: records of
\* numbers, booleans and strings, with undefined fields absent.
StoreResults(others, omit, writeOk) ==
    /\ stage \in {"done", "errored"}
    /\ route = "/"
    /\ LET processedResults == others \o <<Omit(result[1], omit)>> IN
       /\ globalProcessedImages' = processedResults
       /\ IF writeOk
            THEN /\ savedData' = Some(processedResults)
                 /\ UNCHANGED usingGlobalMemory
            ELSE /\ usingGlobalMemory' = TRUE
                 /\ UNCHANGED savedData
    /\ route' = "/results"
    /\ UNCHANGED <<otherVars, pipeVars, pageVars>>

----------------------------------------------------------------------------
(* Results page *)

\* Nothing in the sources assigns window.globalProcessedImages.
WindowGlobalProcessedImages == Undefined

Space == " "
Names == {<<>>, <<Space>>, <<"L", "1">>}

RECURSIVE TrimStart(_)
TrimStart(str) ==
    IF str # <<>> /\ Head(str) = Space THEN TrimStart(Tail(str)) ELSE str

RECURSIVE TrimEnd(_)
TrimEnd(str) ==
    IF str # <<>> /\ str[Len(str)] = Space
      THEN TrimEnd(SubSeq(str, 1, Len(str) - 1))
      ELSE str

Trim(str) == TrimEnd(TrimStart(str))

PageInit ==
    /\ images = <<>>
    /\ selectedImageIndex = 0
    /\ isLoading = TRUE
    /\ loteName = <<>>
    /\ isSaving = FALSE
    /\ saveSuccess = FALSE
    /\ saveError = Undefined
    /\ request = Undefined
    /\ awaiting = FALSE
    /\ timerPending = FALSE
    /\ rejecting = FALSE

\* A stored text that JSON.parse rejects.  Texts that parse are held as
\* Some(value).
NotJson == <<"Unexpected token", "{">>
IsJson(text) == Len(text) = 1

\* useEffect on mount: loadData
LoadData ==
    /\ route = "/results"
    /\ isLoading
    /\ IF savedData # Undefined
         THEN IF IsJson(savedData)
                THEN images' = savedData[1] /\ route' = route
                ELSE images' = images /\ route' = "/"
         ELSE IF usingGlobalMemory /\ WindowGlobalProcessedImages # Undefined
           THEN images' = WindowGlobalProcessedImages[1] /\ route' = route
           ELSE images' = images /\ route' = "/"
    /\ isLoading' = FALSE
    /\ UNCHANGED <<otherVars, pipeVars, storeVars, selectedImageIndex, loteName, isSaving,
                   saveSuccess, saveError, request, awaiting, timerPending>>

\* const selectedImage = images[selectedImageIndex]; the page body is
\* rendered only when it is loaded and an image is selected.
HasSelectedImage == selectedImageIndex < Len(images)
Displayed == route = "/results" /\ ~isLoading /\ HasSelectedImage
selectedImage == images[selectedImageIndex + 1]

\* onClick of a thumbnail
SetSelectedImageIndex(index) ==
    /\ Displayed
    /\ index \in 0..(Len(images) - 1)
    /\ selectedImageIndex' = index
    /\ UNCHANGED <<otherVars, pipeVars, storeVars, route, images, isLoading, loteName,
                   isSaving, saveSuccess, saveError, request, awaiting, timerPending>>

\* onChange of the name input
SetLoteName(name) ==
    /\ Displayed
    /\ loteName' = name
    /\ UNCHANGED <<otherVars, pipeVars, storeVars, route, images, selectedImageIndex, isLoading,
                   isSaving, saveSuccess, saveError, request, awaiting, timerPending>>

----------------------------------------------------------------------------
(* handleAprovarLote: the capture record built for each image *)

\* What JSON carries for Infinity and NaN (a division by cols = 0).
NotANumber == -1

\* Variant: Math.floor in place of Math.ceil.
FloorSqrt(n) == CHOOSE c \in 0..n : c * c <= n /\ (c + 1) * (c + 1) > n

\* Math.ceil(Math.sqrt(n)) for a count n
CeilSqrt(n) == CHOOSE c \in 0..n : c * c >= n /\ (c = 0 \/ (c - 1) * (c - 1) < n)

\* Math.floor(index / cols)
GridRow(index, cols) == IF cols = 0 THEN NotANumber ELSE index \div cols

\* index % cols
GridCol(index, cols) == IF cols = 0 THEN NotANumber ELSE index % cols

\* Variant: every non-empty compartment is valid.
BoxIsValidNonEmpty(box) == box.status # "empty"

\* Variant: only an empty compartment is a defect.
BoxHasDefectOnlyEmpty(box) == box.status = "empty"

BoxIsValid(box) == box.status = "single"
BoxHasDefect(box) == box.status # "single"

\* img.boxes_info.boxes.map((box, index) => ...), index 0-based
Compartments(img) ==
    LET cols == CeilSqrt(img.boxes_info.total_boxes) IN
    [i \in 1..Len(img.boxes_info.boxes) |->
        LET box == img.boxes_info.boxes[i] IN
        [grid_row |-> GridRow(i - 1, cols),
         grid_col |-> GridCol(i - 1, cols),
         pins_count |-> box.pins_count,
         is_valid |-> BoxIsValid(box),
         has_defect |-> BoxHasDefect(box)]]

\* img.pin_classification?.<field>
PinField(img, field) ==
    IF img.pin_classification = Undefined
      THEN Undefined
      ELSE Some(img.pin_classification[1][field])

\* img.pin_classification?.details?.<field>
PinDetail(img, field) ==
    IF img.pin_classification = Undefined
      THEN Undefined
      ELSE Some(img.pin_classification[1].details[field])

\* img.shaft_classification?.<field>
ShaftField(img, field) ==
    IF img.shaft_classification = Undefined
      THEN Undefined
      ELSE Some(img.shaft_classification[1][field])

emptyBoxes(img) == OrZero(Some(img.boxes_info.empty_boxes))
multipleBoxes(img) == OrZero(Some(img.boxes_info.multiple_pins_boxes))
\* invalidPins read from critical_pins: pins with one defect are not counted.
invalidPinsFromCritical(img) == OrZero(PinField(img, "critical_pins"))
invalidPins(img) == OrZero(PinField(img, "invalid_pins"))

\* Variant: the critical count is read from invalid_pins.
criticalPinsFromInvalid(img) == OrZero(PinField(img, "invalid_pins"))

criticalPins(img) == OrZero(PinField(img, "critical_pins"))

\* Variant: an image without any shaft counts as one rejected shaft.
rejectedShaftsNoneIsDefect(img) ==
    IF OrZero(ShaftField(img, "total_shafts")) = 0
      THEN 1
      ELSE OrZero(ShaftField(img, "rejected_shafts"))

rejectedShafts(img) == OrZero(ShaftField(img, "rejected_shafts"))

\* Variant: the critical pins are left out of the sum.
totalDefectsNoCritical(img) ==
    emptyBoxes(img) + multipleBoxes(img) + invalidPins(img) + rejectedShafts(img)

totalDefects(img) ==
    emptyBoxes(img) + multipleBoxes(img) + invalidPins(img)
        + criticalPins(img) + rejectedShafts(img)

\* Variant: any invalid pin counts as a damaged one.
HasDamagedPinsFromInvalid(img) == OrZero(PinField(img, "invalid_pins")) > 0

HasDamagedPins(img) == OrZero(PinDetail(img, "pins_damaged_yellow")) > 0
HasWrongColorPins(img) == OrZero(PinDetail(img, "pins_wrong_color")) > 0

Capture(img) ==
    [is_valid |-> totalDefects(img) = 0,
     defects_count |-> totalDefects(img),
     has_missing_pins |-> emptyBoxes(img) > 0,
     has_extra_pins |-> multipleBoxes(img) > 0,
     has_damaged_pins |-> HasDamagedPins(img),
     has_wrong_color_pins |-> HasWrongColorPins(img),
     has_structure_damage |-> FALSE,
     has_shaft_defects |-> rejectedShafts(img) > 0,
     compartments |-> Compartments(img)]

\* calculateShaftAverages: the averages shown for the selected image.  A
\* quotient is kept as the pair <<numerator, denominator>>.
calculateShaftAverages(shaftClass) ==
    IF shaftClass = Undefined \/ shaftClass[1].total_shafts = 0
      THEN [length |-> <<0, 1>>, straightness |-> <<0, 1>>]
      ELSE LET ss == shaftClass[1].shafts IN
           [length |-> <<SumSeq([i \in 1..Len(ss) |-> ss[i].length]),
                         shaftClass[1].total_shafts>>,
            straightness |-> <<SumSeq([i \in 1..Len(ss) |-> ss[i].straightness]),
                               shaftClass[1].total_shafts>>]

\* Variant: the rendered total forgets the rejected shafts.
totalDefectsCurrentNoShafts(img) ==
    OrZero(Some(img.boxes_info.empty_boxes))
      + OrZero(Some(img.boxes_info.multiple_pins_boxes))
      + OrZero(PinField(img, "invalid_pins"))
      + OrZero(PinField(img, "critical_pins"))

\* Computed while rendering the selected image.
totalDefectsCurrent(img) ==
    OrZero(Some(img.boxes_info.empty_boxes))
      + OrZero(Some(img.boxes_info.multiple_pins_boxes))
      + OrZero(PinField(img, "invalid_pins"))
      + OrZero(PinField(img, "critical_pins"))
      + OrZero(ShaftField(img, "rejected_shafts"))

isCurrentValid == totalDefectsCurrent(selectedImage) = 0

\* Colour of a shaft's card in the shaft details list.
ShaftCardStyle(shaft) ==
    IF shaft.approved THEN "green"
    ELSE IF shaft.rejected_secondary THEN "purple"
    ELSE "red"

\* The line "Reprovada: Criterio Secundario" under a shaft's card.
ShowsSecondaryLabel(shaft) == shaft.rejected_secondary

\* handleAprovarLote without its first statement, the check of the name.
HandleAprovarLoteUnchecked ==
    /\ Displayed
    /\ ~isSaving
    /\ isSaving' = TRUE
    /\ saveSuccess' = FALSE
    /\ saveError' = Undefined
    /\ request' = Some([name |-> loteName, captures |-> Map(Capture, images)])
    /\ awaiting' = TRUE
    /\ UNCHANGED <<otherVars, pipeVars, storeVars, route, images, selectedImageIndex, isLoading,
                   loteName, timerPending>>

\* onClick of "Aprovar" (disabled while isSaving), up to the await of fetch.
\* A blank name only raises an alert.
HandleAprovarLote ==
    /\ Displayed
    /\ ~isSaving
    /\ IF Trim(loteName) = <<>>
         THEN UNCHANGED <<isSaving, saveSuccess, saveError, request, awaiting>>
         ELSE /\ isSaving' = TRUE
              /\ saveSuccess' = FALSE
              /\ saveError' = Undefined
              /\ request' = Some([name |-> loteName, captures |-> Map(Capture, images)])
              /\ awaiting' = TRUE
    /\ UNCHANGED <<otherVars, pipeVars, storeVars, route, images, selectedImageIndex, isLoading,
                   loteName, timerPending>>

\* handleAprovarLote after the await: response.ok or not, then finally.
CreateBatchResponse(ok) ==
    /\ awaiting
    /\ awaiting' = FALSE
    /\ IF ok
         THEN saveSuccess' = TRUE /\ timerPending' = TRUE /\ UNCHANGED saveError
         ELSE saveError' = Some("Erro ao salvar lote")
                /\ UNCHANGED <<saveSuccess, timerPending>>
    /\ isSaving' = FALSE
    /\ UNCHANGED <<otherVars, pipeVars, storeVars, route, images, selectedImageIndex, isLoading,
                   loteName, request>>

\* The setTimeout callback of a successful approval.
RedirectAfterSave ==
    /\ timerPending
    /\ timerPending' = FALSE
    /\ savedData' = Undefined
    /\ usingGlobalMemory' = FALSE
    /\ route' = "/admin/batches"
    /\ UNCHANGED <<otherVars, pipeVars, globalProcessedImages, images, selectedImageIndex,
                   isLoading, loteName, isSaving, saveSuccess, saveError, request,
                   awaiting>>

\* onClick of "Rejeitar" (disabled while isSaving), up to the await of
\* fetch.  ProcessedImage declares timestamp as a required string, so
\* images[0].timestamp is taken to be present.
HandleRejeitarLote(confirmed) ==
    /\ Displayed
    /\ ~isSaving
    /\ IF confirmed
         THEN isSaving' = TRUE /\ rejecting' = TRUE
         ELSE UNCHANGED <<isSaving, rejecting>>
    /\ UNCHANGED <<pipeVars, storeVars, route, images, selectedImageIndex, isLoading,
                   loteName, saveSuccess, saveError, request, awaiting, timerPending,
                   uploadVars, dashVars, lotesVars>>

\* handleRejeitarLote after the await: the fetch resolved (whatever the
\* status) or rejected, then finally.
RejectBatchResponse(resolved) ==
    /\ rejecting
    /\ rejecting' = FALSE
    /\ IF resolved
         THEN /\ savedData' = Undefined
              /\ usingGlobalMemory' = FALSE
              /\ route' = "/"
              /\ UNCHANGED saveError
         ELSE /\ saveError' = Some("Erro ao rejeitar lote")
              /\ UNCHANGED <<savedData, usingGlobalMemory, route>>
    /\ isSaving' = FALSE
    /\ UNCHANGED <<pipeVars, globalProcessedImages, images, selectedImageIndex, isLoading,
                   loteName, saveSuccess, request, awaiting, timerPending,
                   uploadVars, dashVars, lotesVars>>

----------------------------------------------------------------------------
(* Upload page: the file list and the image viewer modal.                  *)
(*                                                                         *)
(* A handler reads the constants of the render it was created in           *)
(* (files, selectedImageIndex, isModalOpen as `shown` holds them), while   *)
(* an updater function passed to a setter is applied to the latest state.  *)

MAX_FILES == 5

\* The file entries are told apart by their id; a new entry gets an id no
\* entry had before.
RECURSIVE MaxOf(_)
MaxOf(ids) == IF ids = <<>> THEN 0
              ELSE IF Head(ids) > MaxOf(Tail(ids)) THEN Head(ids) ELSE MaxOf(Tail(ids))

LastId == IF MaxOf(files) > MaxOf(shown.files) THEN MaxOf(files) ELSE MaxOf(shown.files)

\* newFiles.slice(0, n)
Slice(seq, n) ==
    IF n <= 0 THEN <<>> ELSE IF n >= Len(seq) THEN seq ELSE SubSeq(seq, 1, n)

\* prev.filter((f) => f.id !== id)
RECURSIVE FilterOut(_, _)
FilterOut(prev, id) ==
    IF prev = <<>> THEN <<>>
    ELSE IF Head(prev) = id THEN FilterOut(Tail(prev), id)
    ELSE <<Head(prev)>> \o FilterOut(Tail(prev), id)

\* A selection of files: TRUE for a file validateFile accepts.
Selections == UNION {[1..n -> BOOLEAN] : n \in 1..MaxSelected}

UploadPageUp == route = "/" /\ ~renderFailed
ModalShown == shown.isModalOpen /\ shown.selectedImageIndex # Undefined

\* handleFileInput and handleDrop: addFiles(newFiles).  The input is on the
\* page while fewer than MAX_FILES files are shown.
AddFiles(newFiles) ==
    /\ UploadPageUp
    /\ Len(shown.files) < MAX_FILES
    /\ LET remainingSlots == MAX_FILES - Len(shown.files)
           filesToAdd == Slice(newFiles, remainingSlots)
           validCount == CountIf(LAMBDA ok : ok, filesToAdd)
           validFiles == [i \in 1..validCount |-> LastId + i]
       IN /\ LastId + validCount <= MaxAdded
          /\ files' = files \o validFiles
          /\ error' = IF Len(newFiles) > remainingSlots THEN Some("limit")
                      ELSE IF validCount < Len(filesToAdd) THEN Some("validation")
                      ELSE error
    /\ UNCHANGED <<isModalOpen, modalImageIndex, shown, renderFailed, uploadIsLoading,
                   awaitingAt, batchRun, log, navTimer, dashVars, adminVars, pipeVars,
                   storeVars, route, pageVars>>

\* setTimeout(() => setError(null), 5000)
ErrorTimeout ==
    /\ UploadPageUp
    /\ error \in {Some("limit"), Some("validation")}
    /\ error' = Undefined
    /\ UNCHANGED <<files, isModalOpen, modalImageIndex, shown, renderFailed,
                   uploadIsLoading, awaitingAt, batchRun, log, navTimer, dashVars, adminVars,
                   pipeVars, storeVars, route, pageVars>>

\* The trash button of a thumbnail: removeFile(file.id)
RemoveFile(id) ==
    /\ UploadPageUp
    /\ \E i \in 1..Len(shown.files) : shown.files[i] = id
    /\ files' = FilterOut(files, id)
    /\ UNCHANGED <<isModalOpen, modalImageIndex, shown, renderFailed, uploadIsLoading,
                   error, awaitingAt, batchRun, log, navTimer, dashVars, adminVars, pipeVars,
                   storeVars, route, pageVars>>

\* "Limpar Tudo"
ClearFiles ==
    /\ UploadPageUp
    /\ Len(shown.files) > 0
    /\ ~uploadIsLoading
    /\ files' = <<>>
    /\ UNCHANGED <<isModalOpen, modalImageIndex, shown, renderFailed, uploadIsLoading,
                   error, awaitingAt, batchRun, log, navTimer, dashVars, adminVars, pipeVars,
                   storeVars, route, pageVars>>

\* onClick of a thumbnail: openModal(index)
OpenModal(index) ==
    /\ UploadPageUp
    /\ index \in 0..(Len(shown.files) - 1)
    /\ modalImageIndex' = Some(index)
    /\ isModalOpen' = TRUE
    /\ UNCHANGED <<files, shown, renderFailed, uploadIsLoading, error, awaitingAt,
                   batchRun, log, navTimer, dashVars, adminVars, pipeVars, storeVars, route,
                   pageVars>>

\* The close buttons of the modal and the Escape key
CloseModal ==
    /\ UploadPageUp
    /\ shown.isModalOpen
    /\ isModalOpen' = FALSE
    /\ modalImageIndex' = Undefined
    /\ UNCHANGED <<files, shown, renderFailed, uploadIsLoading, error, awaitingAt,
                   batchRun, log, navTimer, dashVars, adminVars, pipeVars, storeVars, route,
                   pageVars>>

\* prevIndex! + delta, where null counts as 0
Shifted(prevIndex, delta) == OrZero(prevIndex) + delta

\* showNextImage (delta = 1) and showPrevImage (delta = files.length - 1),
\* from the arrow buttons and the arrow keys
ShowImage(next) ==
    /\ UploadPageUp
    /\ shown.isModalOpen
    /\ IF Len(shown.files) > 1
         THEN modalImageIndex' =
                 Some(Shifted(modalImageIndex,
                              IF next THEN 1 ELSE Len(shown.files) - 1)
                        % Len(shown.files))
         ELSE UNCHANGED modalImageIndex
    /\ UNCHANGED <<files, isModalOpen, shown, renderFailed, uploadIsLoading, error,
                   awaitingAt, batchRun, log, navTimer, dashVars, adminVars, pipeVars,
                   storeVars, route, pageVars>>

\* "Excluir imagem" in the modal
HandleDeleteFromModal ==
    /\ UploadPageUp
    /\ ModalShown
    /\ files' = FilterOut(files, shown.files[shown.selectedImageIndex[1] + 1])
    /\ UNCHANGED <<isModalOpen, modalImageIndex, shown, renderFailed, uploadIsLoading,
                   error, awaitingAt, batchRun, log, navTimer, dashVars, adminVars, pipeVars,
                   storeVars, route, pageVars>>

\* React renders the page from the latest state.  The modal branch reads
\* files[selectedImageIndex].preview: with no file at that index the render
\* throws.  After a render that went through, the effect on
\* [files, isModalOpen, selectedImageIndex] runs.
RenderUpload ==
    /\ UploadPageUp
    /\ shown # [files |-> files, isModalOpen |-> isModalOpen,
                 selectedImageIndex |-> modalImageIndex]
    /\ shown' = [files |-> files, isModalOpen |-> isModalOpen,
                  selectedImageIndex |-> modalImageIndex]
    /\ IF isModalOpen /\ modalImageIndex # Undefined /\ modalImageIndex[1] >= Len(files)
         THEN renderFailed' = TRUE /\ UNCHANGED <<isModalOpen, modalImageIndex>>
         ELSE /\ renderFailed' = FALSE
              /\ IF isModalOpen /\ files = <<>>
                   THEN isModalOpen' = FALSE /\ modalImageIndex' = Undefined
                   ELSE UNCHANGED <<isModalOpen, modalImageIndex>>
    /\ UNCHANGED <<files, uploadIsLoading, error, awaitingAt, batchRun, log,
                   navTimer, dashVars, adminVars, pipeVars, storeVars, route, pageVars>>

----------------------------------------------------------------------------
(* Upload page: handleContinue, upload-batch then process-images.          *)

\* The results of a whole batch, one entry per uploaded file.
ResultsFor(uploaded) == [i \in 1..Len(uploaded) |-> OtherImage]

\* The log tells the runs of handleContinue apart by their number.
IsContinue(e) == e.ev = "continue"
RunsStarted == CountIf(IsContinue, log)
Event(run, ev) == [run |-> run, ev |-> ev]
Events(run, evs) == [i \in 1..Len(evs) |-> Event(run, evs[i])]

\* onClick of "Continuar" (disabled while isLoading or without files), up
\* to the await of uploadBatch.
HandleContinue ==
    /\ UploadPageUp
    /\ ~uploadIsLoading
    /\ Len(shown.files) > 0
    /\ RunsStarted < MaxRuns
    /\ uploadIsLoading' = TRUE
    /\ error' = Undefined
    /\ log' = log \o Events(RunsStarted + 1, <<"continue", "upload-batch">>)
    /\ awaitingAt' = "upload-batch"
    /\ UNCHANGED <<files, isModalOpen, modalImageIndex, shown, renderFailed, batchRun,
                   navTimer, dashVars, adminVars, pipeVars, storeVars, route, pageVars>>

\* A set-state of a handler that is still running after the page was left
\* has no effect.
SetIfMounted(current, value) == IF route = "/" THEN value ELSE current

\* Variant: the response of upload-batch is used without looking at its
\* status.
UploadBatchResponseUnchecked(ok) ==
    /\ awaitingAt = "upload-batch"
    /\ log' = log \o Events(RunsStarted,
                           <<IF ok THEN "upload-ok" ELSE "upload-failed",
                             "process-images">>)
    /\ awaitingAt' = "process-images"
    /\ UNCHANGED <<files, isModalOpen, modalImageIndex, shown, renderFailed,
                   uploadIsLoading, error, batchRun, navTimer, dashVars, adminVars, pipeVars,
                   storeVars, route, pageVars>>

\* handleContinue after the await of uploadBatch: the request failed (the
\* catch and the finally run) or processImages is called.
UploadBatchResponse(ok) ==
    /\ awaitingAt = "upload-batch"
    /\ IF ok
         THEN /\ log' = log \o Events(RunsStarted, <<"upload-ok", "process-images">>)
              /\ awaitingAt' = "process-images"
              /\ UNCHANGED <<error, uploadIsLoading>>
         ELSE /\ log' = log \o Events(RunsStarted, <<"upload-failed", "error">>)
              /\ awaitingAt' = "idle"
              /\ error' = SetIfMounted(error, Some("err.message"))
              /\ uploadIsLoading' = SetIfMounted(uploadIsLoading, FALSE)
    /\ UNCHANGED <<files, isModalOpen, modalImageIndex, shown, renderFailed, batchRun,
                   navTimer, dashVars, adminVars, pipeVars, storeVars, route, pageVars>>

ProcessOutcomes == {"failed", "not-array", "results"}

\* handleContinue after the await of processImages: keep the results,
\* write them to sessionStorage (which may throw on quota) and start the
\* 500 ms timer; or the catch; then the finally.
ProcessImagesResponse(outcome, writeOk) ==
    /\ awaitingAt = "process-images"
    /\ awaitingAt' = "idle"
    /\ uploadIsLoading' = SetIfMounted(uploadIsLoading, FALSE)
    /\ IF outcome = "results"
         THEN /\ globalProcessedImages' = ResultsFor(shown.files)
              /\ IF writeOk
                   THEN savedData' = Some(ResultsFor(shown.files))
                          /\ UNCHANGED usingGlobalMemory
                   ELSE usingGlobalMemory' = TRUE /\ UNCHANGED savedData
              /\ log' = log \o Events(RunsStarted, <<"process-ok", "stored">>)
              /\ navTimer' = navTimer \cup {RunsStarted}
              /\ UNCHANGED error
         ELSE /\ log' = log \o Events(RunsStarted, <<"process-" \o outcome, "error">>)
              /\ error' = SetIfMounted(error,
                              IF outcome = "failed"
                                THEN Some("err.message")
                                ELSE Some("Resposta da API em formato invalido"))
              /\ UNCHANGED <<storeVars, navTimer>>
    /\ UNCHANGED <<files, isModalOpen, modalImageIndex, shown, renderFailed, batchRun,
                   dashVars, adminVars, pipeVars, route, pageVars>>

\* The callback of setTimeout(() => router.push("/results"), 500) that the
\* given run of handleContinue started
NavigateToResults(run) ==
    /\ run \in navTimer
    /\ navTimer' = navTimer \ {run}
    /\ route' = "/results"
    /\ log' = log \o Events(run, <<"navigate">>)
    /\ UNCHANGED <<files, isModalOpen, modalImageIndex, shown, renderFailed,
                   uploadIsLoading, error, awaitingAt, batchRun, dashVars, adminVars, pipeVars,
                   storeVars, pageVars>>

----------------------------------------------------------------------------
(* Upload page, batched version: handleContinue sends the files to         *)
(* process-images in batches of BATCH_SIZE.                                *)

BATCH_SIZE == 10

\* handleDrop and handleFileSelect of the batched page: more files than
\* fit are refused as a whole; the others go through processFiles.  count
\* files that are valid and not yet in the list are dropped or selected.
HandleDropBatched(count) ==
    /\ UploadPageUp
    /\ ~uploadIsLoading
    /\ Len(shown.files) < MAX_FILES
    /\ IF count + Len(shown.files) > MAX_FILES
         THEN error' = Some("limit") /\ UNCHANGED files
         ELSE /\ LastId + count <= MaxQueued
              /\ files' = files \o [i \in 1..count |-> LastId + i]
              /\ error' = Undefined
    /\ UNCHANGED <<isModalOpen, modalImageIndex, shown, renderFailed, uploadIsLoading,
                   awaitingAt, batchRun, log, navTimer, dashVars, adminVars, pipeVars, storeVars,
                   route, pageVars>>

\* React renders the batched page from the latest state.
RenderBatched ==
    /\ UploadPageUp
    /\ shown # [files |-> files, isModalOpen |-> isModalOpen,
                 selectedImageIndex |-> modalImageIndex]
    /\ shown' = [files |-> files, isModalOpen |-> isModalOpen,
                  selectedImageIndex |-> modalImageIndex]
    /\ UNCHANGED <<files, isModalOpen, modalImageIndex, renderFailed, uploadIsLoading,
                   error, awaitingAt, batchRun, log, navTimer, dashVars, adminVars, pipeVars,
                   storeVars, route, pageVars>>

\* batches[i]: files.slice(i * BATCH_SIZE, (i + 1) * BATCH_SIZE), i 0-based
BatchOf(fs, i) ==
    SubSeq(fs, i * BATCH_SIZE + 1,
           IF (i + 1) * BATCH_SIZE < Len(fs) THEN (i + 1) * BATCH_SIZE ELSE Len(fs))

\* batches.length
BatchCount(fs) == (Len(fs) + BATCH_SIZE - 1) \div BATCH_SIZE

\* The response to one batch: an entry per image; entry `bad` (0 for none)
\* is that of an image that could not be processed and carries no image
\* data.
BatchResults(run, batch, bad) ==
    [j \in 1..Len(batch) |->
        [run |-> run, file |-> batch[j],
         original_image_data |-> j # bad, processed_image_data |-> j # bad]]

\* onClick of "Continuar", up to the await of the first processBatch
HandleContinueBatched ==
    /\ UploadPageUp
    /\ ~uploadIsLoading
    /\ Len(shown.files) > 0
    /\ RunsStarted < MaxRuns
    /\ uploadIsLoading' = TRUE
    /\ error' = Undefined
    /\ batchRun' = [files |-> shown.files, i |-> 0]
    /\ globalProcessedImages' = <<>>
    /\ log' = log \o Events(RunsStarted + 1, <<"continue", "process-batch">>)
    /\ awaitingAt' = "process-batch"
    /\ UNCHANGED <<files, isModalOpen, modalImageIndex, shown, renderFailed, navTimer,
                   dashVars, adminVars, pipeVars, savedData, usingGlobalMemory, route, pageVars>>

HasNoImageData(img) == ~img.original_image_data \/ ~img.processed_image_data

\* handleContinue after the await of processBatch(batches[i]): the checks
\* on the response, the next batch or the end of the loop with the write
\* to sessionStorage and the timer; or the catch; then the finally.
ProcessBatchResponse(outcome, bad, writeOk) ==
    /\ awaitingAt = "process-batch"
    /\ LET batch == BatchOf(batchRun.files, batchRun.i)
           batchResults == BatchResults(RunsStarted, batch, bad)
           invalidImages == SelectSeq(batchResults, HasNoImageData)
           all == globalProcessedImages \o batchResults
       IN
       /\ bad \in 0..Len(batch)
       /\ IF outcome = "results" /\ invalidImages = <<>>
            THEN /\ globalProcessedImages' = all
                 /\ UNCHANGED error
                 /\ IF batchRun.i + 1 < BatchCount(batchRun.files)
                      THEN /\ batchRun' = [batchRun EXCEPT !.i = @ + 1]
                           /\ log' = log \o Events(RunsStarted,
                                                  <<"batch-ok", "process-batch">>)
                           /\ UNCHANGED <<awaitingAt, uploadIsLoading, savedData,
                                          usingGlobalMemory, navTimer>>
                      ELSE /\ IF writeOk
                                THEN savedData' = Some(all) /\ UNCHANGED usingGlobalMemory
                                ELSE usingGlobalMemory' = TRUE /\ UNCHANGED savedData
                           /\ log' = log \o Events(RunsStarted, <<"batch-ok", "stored">>)
                           /\ navTimer' = navTimer \cup {RunsStarted}
                           /\ awaitingAt' = "idle"
                           /\ uploadIsLoading' = SetIfMounted(uploadIsLoading, FALSE)
                           /\ UNCHANGED batchRun
            ELSE /\ log' = log \o Events(RunsStarted,
                                        <<IF outcome = "results" THEN "batch-image-failed"
                                          ELSE "batch-" \o outcome,
                                          "error">>)
                 /\ error' = SetIfMounted(error,
                                 IF outcome = "failed" THEN Some("err.message")
                                 ELSE IF outcome = "not-array"
                                   THEN Some("Resposta da API em formato invalido")
                                   ELSE Some("imagem(ns) nao processada(s) corretamente"))
                 /\ awaitingAt' = "idle"
                 /\ uploadIsLoading' = SetIfMounted(uploadIsLoading, FALSE)
                 /\ UNCHANGED <<storeVars, batchRun, navTimer>>
    /\ UNCHANGED <<files, isModalOpen, modalImageIndex, shown, renderFailed, dashVars, adminVars,
                   pipeVars, route, pageVars>>

----------------------------------------------------------------------------
(* Dashboard: getDashboardMetrics and the BatchMetrics table.              *)

\* A number is kept as the quotient <<numerator, denominator>>; the text
\* that toFixed(1) makes of it as the count of its tenths, with the number
\* of decimals written.
Percent(part, whole) == <<100 * part, whole>>

\* Variant: the digits after the first decimal are cut off.
ToFixed1Truncated(q) == [tenths |-> (10 * q[1]) \div q[2], decimals |-> 1]

\* Number.prototype.toFixed(1) of a non-negative number: the nearest count
\* of tenths, the larger one when two are equally near.
ToFixed1(q) == [tenths |-> (20 * q[1] + q[2]) \div (2 * q[2]), decimals |-> 1]

\* parseFloat of a text written by toFixed(1)
ParseFloat(text) == <<text.tenths, 10>>

\* quality_score of a finalized batch, computed by the batch collaborator:
\* null for a batch without captures.
QualityScore(valid, total) ==
    IF total = 0 THEN Undefined ELSE Some(ParseFloat(ToFixed1(Percent(valid, total))))

\* The batch collaborator stores one more finalized batch; the query
\* returns the newest first.
InsertBatch(valid, total) ==
    /\ Len(dbBatches) < MaxBatches
    /\ valid <= total
    /\ dbBatches' = <<[total_captures |-> total,
                       valid_captures |-> valid,
                       quality_score |-> QualityScore(valid, total)]>> \o dbBatches
    /\ UNCHANGED <<recentBatches, tableRows, uploadVars, adminVars, pipeVars, storeVars,
                   route, pageVars>>

RecentBatchesShown == 5

\* batch.quality_score || 0
ScoreOrZero(score) == IF score = Undefined THEN <<0, 1>> ELSE score[1]

RecentBatch(batch) ==
    [totalCaptures |-> batch.total_captures,
     validCaptures |-> batch.valid_captures,
     qualityScore |-> ParseFloat(ToFixed1(ScoreOrZero(batch.quality_score)))]

\* getDashboardMetrics: (batches || []).slice(0, 5).map(...)
GetDashboardMetrics ==
    /\ recentBatches' =
          Map(RecentBatch,
              SubSeq(dbBatches, 1,
                     IF Len(dbBatches) < RecentBatchesShown
                       THEN Len(dbBatches) ELSE RecentBatchesShown))
    /\ UNCHANGED <<dbBatches, tableRows, uploadVars, adminVars, pipeVars, storeVars,
                   route, pageVars>>

\* Variant: the success rate is cut to one decimal instead of rounded.
SuccessRateTruncated(batch) ==
    IF batch.totalCaptures > 0
      THEN ToFixed1Truncated(Percent(batch.validCaptures, batch.totalCaptures))
      ELSE [tenths |-> 0, decimals |-> 0]

\* successRate of a row of the table; "0" for a batch without captures.
SuccessRate(batch) ==
    IF batch.totalCaptures > 0
      THEN ToFixed1(Percent(batch.validCaptures, batch.totalCaptures))
      ELSE [tenths |-> 0, decimals |-> 0]

\* One row of the table: the counts, the success rate and the score.
TableRow(batch) ==
    [totalCaptures |-> batch.totalCaptures,
     validCaptures |-> batch.validCaptures,
     successRate |-> SuccessRate(batch),
     qualityScore |-> ToFixed1(batch.qualityScore)]

\* BatchMetrics renders one row per recent batch.
RenderBatchMetrics ==
    /\ tableRows' = Map(TableRow, recentBatches)
    /\ UNCHANGED <<dbBatches, recentBatches, uploadVars, adminVars, pipeVars, storeVars,
                   route, pageVars>>

----------------------------------------------------------------------------
(* Admin batches page: the list and handleDelete.                          *)

\* getBatches orders by created_at, newest first; a newer batch has the
\* larger id here.
RECURSIVE NewestFirst(_)
NewestFirst(ids) ==
    IF ids = {} THEN <<>>
    ELSE LET newest == CHOOSE b \in ids : \A other \in ids : other <= b
         IN <<newest>> \o NewestFirst(ids \ {newest})

\* batches.filter(b => b.id !== batchId)
WithoutBatch(list, batchId) == SelectSeq(list, LAMBDA b : b # batchId)

Listed(batchId) == \E i \in 1..Len(batches) : batches[i] = batchId

LotesPageUp == route = "/admin/batches" /\ ~loading

\* useEffect on mount: loadBatches, after the await of getBatches.  The
\* message kept in the page's error state is not modelled.
LoadBatchesResponse(ok) ==
    /\ route = "/admin/batches"
    /\ loading
    /\ batches' = IF ok THEN NewestFirst(batchesTable) ELSE batches
    /\ loading' = FALSE
    /\ UNCHANGED <<pipeVars, storeVars, route, pageVars, uploadVars, dashVars, rejectVars,
                   batchesTable, deleting, deleteCalls>>

\* onClick of the delete button of a row (disabled while deleting is that
\* row's id), up to the await of deleteBatch.  The continuation keeps the
\* batches of the render the handler was created in.
HandleDelete(batchId, confirmed) ==
    /\ LotesPageUp
    /\ Listed(batchId)
    /\ deleting # Some(batchId)
    /\ Len(deleteCalls) < MaxDeleteCalls
    /\ IF confirmed
         THEN /\ deleting' = Some(batchId)
              /\ deleteCalls' = Append(deleteCalls,
                                       [batchId |-> batchId, batches |-> batches])
         ELSE UNCHANGED <<deleting, deleteCalls>>
    /\ UNCHANGED <<pipeVars, storeVars, route, pageVars, uploadVars, dashVars, rejectVars,
                   batchesTable, batches, loading>>

\* deleteBatch answers and handleDelete resumes: the row is deleted and
\* the list replaced, or the error is caught and an alert raised; finally
\* deleting is reset.
DeleteBatchResponse(k, ok) ==
    /\ k \in 1..Len(deleteCalls)
    /\ LET call == deleteCalls[k] IN
       IF ok
         THEN /\ batchesTable' = batchesTable \ {call.batchId}
              /\ batches' = WithoutBatch(call.batches, call.batchId)
         ELSE UNCHANGED <<batchesTable, batches>>
    /\ deleting' = Undefined
    /\ deleteCalls' = SubSeq(deleteCalls, 1, k - 1)
                        \o SubSeq(deleteCalls, k + 1, Len(deleteCalls))
    /\ UNCHANGED <<pipeVars, storeVars, route, pageVars, uploadVars, dashVars, rejectVars, loading>>

----------------------------------------------------------------------------
(* Specifications *)

UploadInit ==
    /\ files = <<>>
    /\ isModalOpen = FALSE
    /\ modalImageIndex = Undefined
    /\ shown = [files |-> <<>>, isModalOpen |-> FALSE, selectedImageIndex |-> Undefined]
    /\ renderFailed = FALSE
    /\ uploadIsLoading = FALSE
    /\ error = Undefined
    /\ awaitingAt = "idle"
    /\ batchRun = [files |-> <<>>, i |-> 0]
    /\ log = <<>>
    /\ navTimer = {}

DashboardInit ==
    /\ dbBatches = <<>>
    /\ recentBatches = <<>>
    /\ tableRows = <<>>

LotesInit ==
    /\ batchesTable = 1..MaxLotes
    /\ batches = <<>>
    /\ loading = TRUE
    /\ deleting = Undefined
    /\ deleteCalls = <<>>

StoreInit ==
    /\ globalProcessedImages = <<>>
    /\ savedData = Undefined
    /\ usingGlobalMemory = FALSE

PageNext ==
    \/ LoadData
    \/ \E index \in 0..(Len(images) - 1) : SetSelectedImageIndex(index)
    \/ \E name \in Names : SetLoteName(name)
    \/ HandleAprovarLote
    \/ \E ok \in BOOLEAN : CreateBatchResponse(ok)
    \/ RedirectAfterSave

\* One image goes through the whole pipeline; its result, with those of the
\* rest of the batch, is stored and shown on the results page.
Init ==
    /\ PipelineInit
    /\ StoreInit
    /\ route = "/"
    /\ PageInit
    /\ UploadInit
    /\ DashboardInit
    /\ LotesInit

\* Representative shafts: approved, rejected on a primary criterion,
\* rejected on the secondary criterion.
ShaftSamples ==
    {[length |-> MinLength, inclination |-> 0, straightness |-> st, area |-> MinArea] :
        st \in Straightnesses}

Next ==
    \/ DetectCompartment
    \/ FinishGrid
    \/ \E pin \in Pins : DetectPin(pin)
    \/ NextCompartment
    \/ \E g \in ShaftSamples : AnalyzeShaft(g)
    \/ FinishShafts
    \/ Aggregate
    \/ \E others \in OtherResults, omit \in SUBSET OmitKeys, writeOk \in BOOLEAN :
          StoreResults(others, omit, writeOk)
    \/ PageNext

Spec == Init /\ [][Next]_vars

\* The shaft analyzer over every measured geometry, for an image whose tray
\* (one compartment, one good pin) has been through stages 1 and 2.
InitShafts ==
    /\ stage = "shafts"
    /\ cur = 0
    /\ boxes = <<1>>
    /\ tally = TallyPin(EmptyTally, "ok")
    /\ shafts = <<>>
    /\ result = Undefined
    /\ StoreInit
    /\ route = "/"
    /\ PageInit
    /\ UploadInit
    /\ DashboardInit
    /\ LotesInit

NextShafts ==
    \/ \E g \in Geometries : AnalyzeShaft(g)
    \/ FinishShafts
    \/ Aggregate
    \/ StoreResults(<<>>, {}, TRUE)
    \/ PageNext

SpecShafts == InitShafts /\ [][NextShafts]_vars

\* Trays of up to MaxGridBoxes compartments, every occupancy in every
\* position, all pins good and no shaft, at the end of the pipeline.
GridPinCounts == {0, 1, 2}
GridTrays == UNION {[1..n -> GridPinCounts] : n \in 1..MaxGridBoxes}

RECURSIVE TallyOk(_)
TallyOk(n) == IF n = 0 THEN EmptyTally ELSE TallyPin(TallyOk(n - 1), "ok")

InitGrid ==
    /\ stage = "done"
    /\ cur = 0
    /\ boxes \in GridTrays
    /\ tally = TallyOk(SumSeq(boxes))
    /\ shafts = <<>>
    /\ result = Some(Aggregated(boxes, tally, shafts))
    /\ StoreInit
    /\ route = "/"
    /\ PageInit
    /\ UploadInit
    /\ DashboardInit
    /\ LotesInit

NextGrid ==
    \/ StoreResults(<<>>, {}, TRUE)
    \/ LoadData
    \/ SetLoteName(<<"L", "1">>)
    \/ HandleAprovarLote
    \/ CreateBatchResponse(TRUE)
    \/ RedirectAfterSave

SpecGrid == InitGrid /\ [][NextGrid]_vars

\* The dashboard over every small set of finalized batches.
InitDashboard ==
    /\ PipelineInit
    /\ StoreInit
    /\ route = "/admin"
    /\ PageInit
    /\ UploadInit
    /\ DashboardInit
    /\ LotesInit

NextDashboard ==
    \/ \E total \in 0..MaxCaptures : \E valid \in 0..total : InsertBatch(valid, total)
    \/ GetDashboardMetrics
    \/ RenderBatchMetrics

SpecDashboard == InitDashboard /\ [][NextDashboard]_vars

\* The upload page: files are added and removed, the modal is used, React
\* renders.
InitUpload ==
    /\ PipelineInit
    /\ StoreInit
    /\ route = "/"
    /\ PageInit
    /\ UploadInit
    /\ DashboardInit
    /\ LotesInit

NextUpload ==
    \/ \E newFiles \in Selections : AddFiles(newFiles)
    \/ ErrorTimeout
    \/ \E id \in 1..MaxAdded : RemoveFile(id)
    \/ ClearFiles
    \/ \E index \in 0..(MaxAdded - 1) : OpenModal(index)
    \/ CloseModal
    \/ \E next \in BOOLEAN : ShowImage(next)
    \/ HandleDeleteFromModal
    \/ RenderUpload

SpecUpload == InitUpload /\ [][NextUpload]_vars

\* handleContinue on a page that shows one to MAX_FILES files.
InitContinue ==
    /\ PipelineInit
    /\ StoreInit
    /\ route = "/"
    /\ PageInit
    /\ DashboardInit
    /\ LotesInit
    /\ \E n \in 1..MAX_FILES : files = [i \in 1..n |-> i]
    /\ isModalOpen = FALSE
    /\ modalImageIndex = Undefined
    /\ shown = [files |-> files, isModalOpen |-> FALSE, selectedImageIndex |-> Undefined]
    /\ renderFailed = FALSE
    /\ uploadIsLoading = FALSE
    /\ error = Undefined
    /\ awaitingAt = "idle"
    /\ batchRun = [files |-> <<>>, i |-> 0]
    /\ log = <<>>
    /\ navTimer = {}

NextContinue ==
    \/ HandleContinue
    \/ \E ok \in BOOLEAN : UploadBatchResponse(ok)
    \/ \E outcome \in ProcessOutcomes, writeOk \in BOOLEAN :
          ProcessImagesResponse(outcome, writeOk)
    \/ \E run \in 1..MaxRuns : NavigateToResults(run)

SpecContinue == InitContinue /\ [][NextContinue]_vars

\* The batched upload page: files are added, React renders, handleContinue
\* runs.
NextBatched ==
    \/ \E count \in 1..MAX_FILES : HandleDropBatched(count)
    \/ RenderBatched
    \/ HandleContinueBatched
    \/ \E outcome \in ProcessOutcomes, bad \in 0..BATCH_SIZE, writeOk \in BOOLEAN :
          ProcessBatchResponse(outcome, bad, writeOk)
    \/ \E run \in 1..MaxRuns : NavigateToResults(run)

SpecBatched == InitUpload /\ [][NextBatched]_vars

\* The admin batches page over a table of MaxLotes batches.
InitLotes ==
    /\ PipelineInit
    /\ StoreInit
    /\ route = "/admin/batches"
    /\ PageInit
    /\ UploadInit
    /\ DashboardInit
    /\ LotesInit

NextLotes ==
    \/ \E ok \in BOOLEAN : LoadBatchesResponse(ok)
    \/ \E batchId \in 1..MaxLotes, confirmed \in BOOLEAN : HandleDelete(batchId, confirmed)
    \/ \E k \in 1..MaxDeleteCalls, ok \in BOOLEAN : DeleteBatchResponse(k, ok)

SpecLotes == InitLotes /\ [][NextLotes]_vars


\* The results page, mounted over every content of sessionStorage.
LoadedLists == {<<>>, <<OtherImage>>, <<OtherImage, Unprocessable>>}
StoredTexts == {Undefined, NotJson} \cup {Some(list) : list \in LoadedLists}

InitResults ==
    /\ PipelineInit
    /\ globalProcessedImages \in OtherResults
    /\ savedData \in StoredTexts
    /\ usingGlobalMemory \in BOOLEAN
    /\ route = "/results"
    /\ PageInit
    /\ UploadInit
    /\ DashboardInit
    /\ LotesInit

NextResults ==
    \/ PageNext
    \/ \E confirmed \in BOOLEAN : HandleRejeitarLote(confirmed)
    \/ \E resolved \in BOOLEAN : RejectBatchResponse(resolved)

SpecResults == InitResults /\ [][NextResults]_vars

\* The mount effect is run by React once the component is mounted.
SpecResultsLive == SpecResults /\ WF_vars(LoadData)

----------------------------------------------------------------------------
(* Properties *)

\* The captures of the create request that was sent, if any.
Emitted == request # Undefined
captures == request[1].captures

\* A count read from an optional classification object; missing counts as 0.
CountOf(obj, field) == IF obj = Undefined THEN 0 ELSE obj[1][field]
DetailOf(obj, field) == IF obj = Undefined THEN 0 ELSE obj[1].details[field]

\* C1: the defects_count emitted for an image is empty_boxes +
\* multiple_pins_boxes + invalid_pins + critical_pins + rejected_shafts of that
\* image, a missing count taken as 0.
C1_DefectsCountIsSum ==
    Emitted =>
        /\ Len(captures) = Len(images)
        /\ \A i \in 1..Len(images) :
              captures[i].defects_count =
                  images[i].boxes_info.empty_boxes
                    + images[i].boxes_info.multiple_pins_boxes
                    + CountOf(images[i].pin_classification, "invalid_pins")
                    + CountOf(images[i].pin_classification, "critical_pins")
                    + CountOf(images[i].shaft_classification, "rejected_shafts")

\* Reached: a capture was emitted for an image whose pin_classification is
\* missing and whose empty compartment, overfull compartment and rejected
\* shaft add up to 3 defects.
C1_Witness ==
    /\ Emitted
    /\ \E i \in 1..Len(images) :
          /\ images[i].pin_classification = Undefined
          /\ images[i].boxes_info.empty_boxes = 1
          /\ images[i].boxes_info.multiple_pins_boxes = 1
          /\ CountOf(images[i].shaft_classification, "rejected_shafts") = 1
          /\ captures[i].defects_count = 3

\* C2: an emitted capture is valid exactly when its defects_count is 0, and
\* the validity rendered for the selected image is the is_valid emitted (or
\* that would be emitted) for that image.
C2_ValidIffNoDefects ==
    /\ Emitted => \A i \in 1..Len(captures) :
                     captures[i].is_valid <=> (captures[i].defects_count = 0)
    /\ Displayed =>
          /\ isCurrentValid <=> Capture(selectedImage).is_valid
          /\ Emitted => (isCurrentValid <=> captures[selectedImageIndex + 1].is_valid)

\* Reached: the second image of a batch is selected and shown valid (all five
\* counts 0) while the first image was emitted invalid.
C2_Witness ==
    /\ Displayed
    /\ Emitted
    /\ selectedImageIndex = 1
    /\ isCurrentValid
    /\ captures[2].is_valid
    /\ ~captures[1].is_valid

\* C3: the five defect flags of a capture are the comparisons with 0 of
\* empty_boxes, multiple_pins_boxes, pins_damaged, pins_wrong_color and
\* rejected_shafts.
C3_FlagsFromCounts ==
    Emitted => \A i \in 1..Len(images) :
        /\ captures[i].has_missing_pins <=> (images[i].boxes_info.empty_boxes > 0)
        /\ captures[i].has_extra_pins <=> (images[i].boxes_info.multiple_pins_boxes > 0)
        /\ captures[i].has_damaged_pins
              <=> (DetailOf(images[i].pin_classification, "pins_damaged_yellow") > 0)
        /\ captures[i].has_wrong_color_pins
              <=> (DetailOf(images[i].pin_classification, "pins_wrong_color") > 0)
        /\ captures[i].has_shaft_defects
              <=> (CountOf(images[i].shaft_classification, "rejected_shafts") > 0)

\* Reached: a capture with a wrong-colour pin and a rejected shaft but no
\* damaged pin, no empty and no overfull compartment.
C3_Witness ==
    /\ Emitted
    /\ \E i \in 1..Len(captures) :
          /\ captures[i].has_wrong_color_pins
          /\ captures[i].has_shaft_defects
          /\ ~captures[i].has_damaged_pins
          /\ ~captures[i].has_missing_pins
          /\ ~captures[i].has_extra_pins

\* c is ceil(sqrt(n)): the least natural number whose square reaches n.
IsCeilSqrt(c, n) == c * c >= n /\ \A d \in 0..(c - 1) : d * d < n

\* C4: the compartment at 0-based position index gets grid_col = index mod
\* cols and grid_row = index div cols with cols = ceil(sqrt(number of
\* compartments)); with 9 compartments index 4 is at (1, 1), index 8 at (2, 2).
C4_GridMapping ==
    Emitted => \A k \in 1..Len(images) :
        LET n == Len(images[k].boxes_info.boxes)
            comps == captures[k].compartments
        IN  /\ Len(comps) = n
            /\ \A i \in 1..n : \E cols \in 1..n :
                  /\ IsCeilSqrt(cols, n)
                  /\ comps[i].grid_col = (i - 1) % cols
                  /\ comps[i].grid_row = (i - 1) \div cols
            /\ n = 9 =>
                  /\ comps[5].grid_row = 1 /\ comps[5].grid_col = 1
                  /\ comps[9].grid_row = 2 /\ comps[9].grid_col = 2

\* Reached: captures were emitted for a tray of 9 compartments, laid out
\* 3 wide: index 8 in row 2, index 5 in column 2.
C4_Witness ==
    /\ Emitted
    /\ Len(captures[1].compartments) = 9
    /\ captures[1].compartments[9].grid_row = 2
    /\ captures[1].compartments[6].grid_col = 2

\* C5: an emitted compartment is valid exactly when its occupancy status is
\* single, and has_defect is the negation of is_valid.
C5_CompartmentValidity ==
    Emitted => \A k \in 1..Len(images) :
        \A i \in 1..Len(captures[k].compartments) :
            LET comp == captures[k].compartments[i] IN
            /\ comp.is_valid <=> (images[k].boxes_info.boxes[i].status = "single")
            /\ comp.has_defect <=> ~comp.is_valid

\* Reached: one emitted tray has an empty, a single and an overfull
\* compartment; the single one is valid, the other two are defects.
C5_Witness ==
    /\ Emitted
    /\ \E i, j, l \in 1..Len(captures[1].compartments) :
          /\ images[1].boxes_info.boxes[i].status = "empty"
          /\ images[1].boxes_info.boxes[j].status = "single"
          /\ images[1].boxes_info.boxes[l].status = "multiple"
          /\ captures[1].compartments[i].has_defect
          /\ captures[1].compartments[j].is_valid
          /\ captures[1].compartments[l].has_defect

StatusOfCount(box) ==
    /\ box.pins_count = 0 => box.status = "empty"
    /\ box.pins_count = 1 => box.status = "single"
    /\ box.pins_count > 1 => box.status = "multiple"
    /\ box.pins_count >= 0

\* C6: the occupancy status of every compartment is determined by its
\* pins_count (0 empty, 1 single, more multiple), so an emitted compartment is
\* valid exactly when its emitted pins_count is 1.
C6_StatusFromPinsCount ==
    /\ result # Undefined =>
          \A i \in 1..Len(result[1].boxes_info.boxes) :
              StatusOfCount(result[1].boxes_info.boxes[i])
    /\ \A k \in 1..Len(images) : \A i \in 1..Len(images[k].boxes_info.boxes) :
          StatusOfCount(images[k].boxes_info.boxes[i])
    /\ Emitted => \A k \in 1..Len(captures) :
          \A i \in 1..Len(captures[k].compartments) :
              captures[k].compartments[i].is_valid
                  <=> (captures[k].compartments[i].pins_count = 1)

\* Reached: an emitted tray with a compartment of 2 pins that is not valid
\* next to one of 1 pin that is.
C6_Witness ==
    /\ Emitted
    /\ \E i, j \in 1..Len(captures[1].compartments) :
          /\ captures[1].compartments[i].pins_count = 2
          /\ ~captures[1].compartments[i].is_valid
          /\ captures[1].compartments[j].pins_count = 1
          /\ captures[1].compartments[j].is_valid

\* C7: at every point of the pin classification the four category counts are
\* non-negative and add up to the number of pins detected so far, which is the
\* number of pins counted in the compartments; the aggregated result reports
\* the same partition.
C7_PinCategoriesPartition ==
    /\ tally.pins_ok >= 0 /\ tally.pins_wrong_color >= 0
    /\ tally.pins_damaged >= 0 /\ tally.pins_double_defect >= 0
    /\ tally.pins_ok + tally.pins_wrong_color + tally.pins_damaged
          + tally.pins_double_defect = tally.total_pins
    /\ tally.total_pins = SumSeq(boxes)
    /\ (result # Undefined /\ result[1].pin_classification # Undefined) =>
          LET pc == result[1].pin_classification[1] IN
          pc.details.pins_ok + pc.details.pins_wrong_color
              + pc.details.pins_damaged_yellow + pc.details.pins_double_defect
            = pc.total_pins

\* Reached: the pipeline finished an image with one double-defect pin and
\* one pin of another category.
C7_Witness ==
    /\ stage = "done"
    /\ tally.pins_double_defect = 1
    /\ tally.pins_damaged = 1
    /\ tally.total_pins = 2

\* C8: the result reports invalid_pins = total_pins - pins_ok and
\* critical_pins = the number of double_defect pins, and these two are the
\* pin terms of the image's emitted defects_count.
C8_InvalidAndCriticalPins ==
    /\ (result # Undefined /\ result[1].pin_classification # Undefined) =>
          LET pc == result[1].pin_classification[1] IN
          /\ pc.invalid_pins = tally.total_pins - tally.pins_ok
          /\ pc.critical_pins = tally.pins_double_defect
    /\ (Emitted /\ images[Len(images)].pin_classification # Undefined) =>
          LET k == Len(images) IN
          captures[k].defects_count =
              images[k].boxes_info.empty_boxes
                + images[k].boxes_info.multiple_pins_boxes
                + (tally.total_pins - tally.pins_ok)
                + tally.pins_double_defect
                + CountOf(images[k].shaft_classification, "rejected_shafts")

\* Reached: an image with one double-defect and one wrong-colour pin in two
\* single compartments was emitted with defects_count 3 (2 invalid, 1 critical).
C8_Witness ==
    /\ Emitted
    /\ tally.pins_double_defect = 1
    /\ tally.pins_wrong_color = 1
    /\ images[Len(images)].pin_classification # Undefined
    /\ images[Len(images)].boxes_info.single_pin_boxes = 2
    /\ CountOf(images[Len(images)].shaft_classification, "rejected_shafts") = 0
    /\ captures[Len(images)].defects_count = 3

\* Every shaft record the model holds: analysed, aggregated or loaded.
AllShafts ==
    {shafts[i] : i \in 1..Len(shafts)}
      \cup (IF result = Undefined THEN {}
            ELSE {result[1].shaft_classification[1].shafts[i] :
                    i \in 1..Len(result[1].shaft_classification[1].shafts)})
      \cup UNION {IF images[k].shaft_classification = Undefined THEN {}
                  ELSE {images[k].shaft_classification[1].shafts[i] :
                          i \in 1..Len(images[k].shaft_classification[1].shafts)} :
                  k \in 1..Len(images)}

\* C9: no shaft is both approved and rejected_secondary.
C9_NotApprovedAndSecondary ==
    \A s \in AllShafts : ~(s.approved /\ s.rejected_secondary)

\* Reached: the results page holds a shaft rejected on the secondary
\* criterion, which is not approved.
C9_Witness ==
    /\ Displayed
    /\ \E s \in AllShafts : s.rejected_secondary /\ ~s.approved
    /\ selectedImage.shaft_classification # Undefined
    /\ selectedImage.shaft_classification[1].rejected_shafts = 1

FailsPrimary(s) ==
    \/ s.length < MinLength
    \/ s.inclination_rad > MaxInclination
    \/ s.inclination_rad < -MaxInclination
    \/ s.straightness < MinStraightness
    \/ s.area < MinArea
    \/ s.area > MaxArea

FailsSecondary(s) == s.straightness < SecondaryStraightness

\* C10: the two flags of a shaft follow from its measured geometry alone: a
\* failed primary criterion gives (approved, rejected_secondary) = (false,
\* false) whatever the secondary outcome; all primary criteria passed and the
\* secondary failed gives (false, true); everything passed gives (true, false).
\* The shaft's card shows the three outcomes as red, purple and green.
C10_ShaftTerminalState ==
    \A s \in AllShafts :
        /\ FailsPrimary(s) =>
              ~s.approved /\ ~s.rejected_secondary /\ ShaftCardStyle(s) = "red"
        /\ (~FailsPrimary(s) /\ FailsSecondary(s)) =>
              ~s.approved /\ s.rejected_secondary /\ ShaftCardStyle(s) = "purple"
        /\ (~FailsPrimary(s) /\ ~FailsSecondary(s)) =>
              s.approved /\ ~s.rejected_secondary /\ ShaftCardStyle(s) = "green"

\* Reached: the results page holds a shaft that is too short and also below
\* the secondary straightness floor, rejected without the secondary flag.
C10_Witness ==
    /\ Displayed
    /\ selectedImage.shaft_classification # Undefined
    /\ \E i \in 1..Len(selectedImage.shaft_classification[1].shafts) :
          LET s == selectedImage.shaft_classification[1].shafts[i] IN
          /\ s.length < MinLength
          /\ s.straightness >= MinStraightness
          /\ s.straightness < SecondaryStraightness
          /\ ~s.approved
          /\ ~s.rejected_secondary

----------------------------------------------------------------------------
\* C11: an image in which zero compartments were detected is recorded as
\* neither valid nor invalid: the capture emitted for it never carries
\* is_valid = TRUE.
C11_UnprocessableNeverValid ==
    Emitted =>
        \A i \in 1..Len(images) :
            images[i].boxes_info.total_boxes = 0 => ~captures[i].is_valid

\* C14: an image with zero detected shafts has rejected_shafts = 0 in its
\* result, and its capture has has_shaft_defects = FALSE, a defects_count
\* made of the box and pin terms only, and is_valid = TRUE when those are
\* zero; the averages shown for it are zero and not a division by zero.
C14_ZeroShaftsNotAnError ==
    /\ (stage = "done" /\ shafts = <<>>) =>
          result[1].shaft_classification[1].rejected_shafts = 0
    /\ Emitted =>
          \A i \in 1..Len(images) :
              CountOf(images[i].shaft_classification, "total_shafts") = 0 =>
                 /\ ~captures[i].has_shaft_defects
                 /\ captures[i].defects_count =
                        images[i].boxes_info.empty_boxes
                          + images[i].boxes_info.multiple_pins_boxes
                          + CountOf(images[i].pin_classification, "invalid_pins")
                          + CountOf(images[i].pin_classification, "critical_pins")
                 /\ captures[i].is_valid =
                        (images[i].boxes_info.empty_boxes = 0
                          /\ images[i].boxes_info.multiple_pins_boxes = 0
                          /\ CountOf(images[i].pin_classification, "invalid_pins") = 0
                          /\ CountOf(images[i].pin_classification, "critical_pins") = 0)
    /\ (Displayed /\ CountOf(selectedImage.shaft_classification, "total_shafts") = 0) =>
          calculateShaftAverages(selectedImage.shaft_classification)
              = [length |-> <<0, 1>>, straightness |-> <<0, 1>>]

\* Reached: an image that went through the shaft stage without any shaft
\* (shaft_classification present, total_shafts = 0) was emitted as valid.
C14_Witness ==
    /\ Emitted
    /\ stage = "done"
    /\ shafts = <<>>
    /\ images[Len(images)].shaft_classification # Undefined
    /\ images[Len(images)].shaft_classification[1].total_shafts = 0
    /\ captures[Len(images)].is_valid
    /\ captures[Len(images)].defects_count = 0

\* The order in which an image passes through the pipeline.
StageOrder ==
    {<<"grid", "pins">>, <<"grid", "errored">>, <<"pins", "shafts">>,
     <<"shafts", "aggregate">>, <<"aggregate", "done">>}

\* C16: the stages of an image run one after the other and the aggregator
\* starts only from the completed shaft stage, which starts only from the
\* completed pin stage, whatever defects the earlier stages found.
C16_StagesInOrder ==
    [][stage' # stage => <<stage, stage'>> \in StageOrder]_vars

\* Reached: an image with an empty compartment and a damaged pin still had
\* its shaft measured before it was aggregated.
C16_Witness ==
    /\ stage = "done"
    /\ result[1].boxes_info.empty_boxes = 1
    /\ tally.pins_damaged = 1
    /\ result[1].shaft_classification[1].total_shafts = 1

\* text is the one-decimal text nearest to 100 * valid / total
IsPercentToOneDecimal(text, valid, total) ==
    /\ text.decimals = 1
    /\ text.tenths \in 0..1000
    /\ 2 * Abs(text.tenths * total - 1000 * valid) <= total

\* C15: for a batch of N > 0 captures of which V are valid, the quality
\* score and the success rate shown are 100 * V / N rounded to one decimal,
\* between 0 and 100.
C15_QualityScoreIsValidPercentage ==
    /\ \A i \in 1..Len(dbBatches) :
          dbBatches[i].total_captures > 0 =>
             /\ dbBatches[i].quality_score # Undefined
             /\ dbBatches[i].quality_score[1][2] = 10
             /\ IsPercentToOneDecimal(
                    [tenths |-> dbBatches[i].quality_score[1][1], decimals |-> 1],
                    dbBatches[i].valid_captures, dbBatches[i].total_captures)
    /\ \A i \in 1..Len(tableRows) :
          tableRows[i].totalCaptures > 0 =>
             /\ IsPercentToOneDecimal(tableRows[i].successRate,
                    tableRows[i].validCaptures, tableRows[i].totalCaptures)
             /\ IsPercentToOneDecimal(tableRows[i].qualityScore,
                    tableRows[i].validCaptures, tableRows[i].totalCaptures)

\* Reached: a batch with 2 valid captures of 3 is shown with 66.7 in both
\* columns.
C15_Witness ==
    /\ Len(tableRows) >= 1
    /\ tableRows[1].totalCaptures = 3
    /\ tableRows[1].validCaptures = 2
    /\ tableRows[1].successRate = [tenths |-> 667, decimals |-> 1]
    /\ tableRows[1].qualityScore = [tenths |-> 667, decimals |-> 1]

C19_ModalIndexValid ==
    ModalShown => shown.selectedImageIndex[1] \in 0..(Len(shown.files) - 1)

\* What a run of handleContinue does, in order, according to its outcome.
ContinueCourses ==
    {<<"continue", "upload-batch", "upload-failed", "error">>,
     <<"continue", "upload-batch", "upload-ok", "process-images", "process-failed",
       "error">>,
     <<"continue", "upload-batch", "upload-ok", "process-images", "process-not-array",
       "error">>,
     <<"continue", "upload-batch", "upload-ok", "process-images", "process-ok",
       "stored", "navigate">>}

IsPrefix(s, t) == Len(s) <= Len(t) /\ SubSeq(t, 1, Len(s)) = s

\* The events of one run, in the order they happened
RECURSIVE EventsOf(_, _)
EventsOf(run, l) ==
    IF l = <<>> THEN <<>>
    ELSE IF Head(l).run = run THEN <<Head(l).ev>> \o EventsOf(run, Tail(l))
    ELSE EventsOf(run, Tail(l))

\* C20: in every run of handleContinue, process-images is sent only after
\* upload-batch returned successfully, the results are stored only after
\* process-images succeeded and the navigation comes only after that; after
\* a failed request the run does nothing but set the error message.
C20_ContinueInOrder ==
    /\ \A run \in 1..RunsStarted :
          \E course \in ContinueCourses : IsPrefix(EventsOf(run, log), course)
    /\ (log # <<>> /\ log[Len(log)].ev = "error" /\ route = "/") => error # Undefined
    /\ (route = "/results") =>
          /\ \E i \in 1..Len(log) : log[i].ev = "stored"
          /\ (savedData # Undefined \/ usingGlobalMemory)

\* Reached: a first run failed at process-images and left an error, a
\* second run succeeded, stored its results and navigated.
C20_Witness ==
    /\ route = "/results"
    /\ EventsOf(1, log) = <<"continue", "upload-batch", "upload-ok", "process-images",
                            "process-failed", "error">>
    /\ EventsOf(2, log) = <<"continue", "upload-batch", "upload-ok", "process-images",
                            "process-ok", "stored", "navigate">>
    /\ globalProcessedImages = ResultsFor(files)

\* The entries of a store that a given run produced
OfRun(run, store) == SelectSeq(store, LAMBDA img : img.run = run)

RunIsOver == RunsStarted >= 1 /\ awaitingAt = "idle"

\* C12: when one image of a batch of several could not be processed, the
\* run is not aborted: the results of the other images are kept and
\* stored.
C12_PerImageErrorsIsolated ==
    (/\ RunIsOver
     /\ Len(batchRun.files) >= 2
     /\ \E i \in 1..Len(log) :
           log[i] = Event(RunsStarted, "batch-image-failed")) =>
        /\ Len(OfRun(RunsStarted, globalProcessedImages)) >= Len(batchRun.files) - 1
        /\ \E i \in 1..Len(log) : log[i] = Event(RunsStarted, "stored")

C21_GlobalMemoryShown ==
    [][(/\ route = "/results" /\ isLoading /\ ~isLoading'
        /\ usingGlobalMemory
        /\ savedData # Some(globalProcessedImages))
         => (route' = "/results" /\ images' = globalProcessedImages)]_vars

\* C22: a batch whose deleteBatch call has succeeded (its row is gone from
\* the table) is absent from the list of the batches page from then on,
\* also when the deletions of two batches overlap.
C22_DeletedStaysAbsent ==
    \A batchId \in 1..MaxLotes :
        batchId \notin batchesTable => ~Listed(batchId)

\* C23: approving with an empty or whitespace-only name sends no
\* create-batch request and changes nothing: isSaving stays false,
\* saveSuccess and saveError are as before, and the stored processedImages
\* and the loaded images are kept.
C23_BlankNameApprovalChangesNothing ==
    [][(Trim(loteName) = <<>> /\ HandleAprovarLote)
         => (/\ request' = request /\ awaiting' = awaiting
             /\ ~isSaving'
             /\ saveSuccess' = saveSuccess /\ saveError' = saveError
             /\ savedData' = savedData /\ images' = images)]_vars

\* The page shows loaded results, the name typed is a single space and no
\* request is in flight: "Aprovar" can be clicked, and having been clicked
\* leaves the page in this very state, with no request sent.
C23_Witness ==
    /\ Displayed /\ ~isSaving
    /\ loteName = <<Space>>
    /\ savedData # Undefined
    /\ request = Undefined /\ ~awaiting
    /\ ENABLED HandleAprovarLote

\* C24: once a create-batch request has succeeded for the loaded results
\* (its redirect timer is pending) and while the page is still on
\* /results, no step sends a further create-batch request or a
\* reject-batch request.
C24_NoRequestAfterSuccess ==
    [][(route = "/results" /\ timerPending)
         => (/\ ~(~awaiting /\ awaiting')
             /\ ~(~rejecting /\ rejecting'))]_vars

\* C25: after mounting, whatever sessionStorage holds (nothing, a text that
\* does not parse, an empty list, a non-empty list), the results page
\* eventually displays the loaded results or navigates to the upload page:
\* it does not stay on the loading spinner forever.
C25_LeavesSpinner == <>(Displayed \/ route = "/")

\* The relations the pin tallies of a result satisfy: the category counts
\* sum to total_pins and invalid_pins = total_pins - pins_ok.  A result
\* without pin_classification has no tallies.
TalliesRelated(img) ==
    img.pin_classification # Undefined =>
        LET pc == img.pin_classification[1] IN
        /\ pc.details.pins_ok + pc.details.pins_wrong_color
              + pc.details.pins_damaged_yellow + pc.details.pins_double_defect
             = pc.total_pins
        /\ pc.invalid_pins = pc.total_pins - pc.details.pins_ok

\* C26: in every capture handleAprovarLote emits from pin tallies that
\* satisfy these relations, is_valid = true implies that has_missing_pins,
\* has_extra_pins, has_damaged_pins, has_wrong_color_pins and
\* has_shaft_defects are all false.
C26_ValidHasNoFlags ==
    Emitted => \A i \in 1..Len(captures) :
        (TalliesRelated(images[i]) /\ captures[i].is_valid) =>
            /\ ~captures[i].has_missing_pins
            /\ ~captures[i].has_extra_pins
            /\ ~captures[i].has_damaged_pins
            /\ ~captures[i].has_wrong_color_pins
            /\ ~captures[i].has_shaft_defects

\* Reached: a request with a valid capture of an image that has pins and an
\* analysed shaft, next to a capture that is not valid.
C26_Witness ==
    /\ Emitted
    /\ \E i \in 1..Len(captures) :
          /\ captures[i].is_valid
          /\ CountOf(images[i].pin_classification, "total_pins") >= 1
          /\ CountOf(images[i].shaft_classification, "total_shafts") >= 1
    /\ \E j \in 1..Len(captures) : ~captures[j].is_valid

====
